---- MODULE Spec2Model ----
(***************************************************************************)
(* Model of tubular/asgard.py: the Asgard task poller, the ASG lifecycle   *)
(* calls (new_asg, enable_asg, disable_asg), the cluster directory         *)
(* (clusters_for_asgs, asgs_for_cluster) and the deploy orchestration.     *)
(*                                                                         *)
(* Cluster names are modelled as the integers 1..MaxClusters, an ASG name  *)
(* as the record [cluster, version] (standing for "<cluster>-v<version>"). *)
(* The ec2 module and the Asgard backend are the environment: their        *)
(* outcomes are chosen nondeterministically.                               *)
(***************************************************************************)
EXTENDS Integers, Sequences, FiniteSets, TLC

\* ---------------------------------------------------------------- bounds
MaxClusters == 2      \* clusters in the Asgard cluster listing
MaxOldAsgs == 2       \* ASGs a cluster holds before the deploy
MaxPolls == 2         \* distinct task statuses a task goes through
MaxTimeout == 3       \* largest timeout handed to the poller on its own
MaxCreators == 2

\* ------------------------------------------------------ program constants
ASGARD_WAIT_TIMEOUT == 300
ENABLE_WAIT_TIMEOUT == 301
DISABLE_WAIT_TIMEOUT == 300
REQUESTS_TIMEOUT == 1

Statuses == {"running", "completed", "failed"}
Logs == {"boom", "oops"}

\* A backend task as the poller sees it: the status the n-th poll observes
\* is statuses[n], the last status persisting afterwards; log is its log.
StatusSeqs == UNION {[1..n -> Statuses] : n \in 1..MaxPolls}
Tasks == [statuses : StatusSeqs, log : Logs]

Asg(c, v) == [cluster |-> c, version |-> v]

NoError == [type |-> "none", at |-> 0, log |-> ""]
\* An exception: its class, the index in calls of the call that raised it,
\* and the task log carried in its message.
Error(type, at, log) == [type |-> type, at |-> at, log |-> log]

\* One outgoing call of deploy: op, the cluster it is about (0 if none),
\* the ASG names in the request, whether the argument handed over was a
\* single name (scalar) or a list of names, whether the call returned
\* without raising, and for a task-backed call the last status polled
\* ("none" otherwise) and the log of a failed task.
Call(op, cluster, names, scalar, ok) ==
    [op |-> op, cluster |-> cluster, names |-> names, scalar |-> scalar, ok |-> ok,
     status |-> "none", log |-> ""]

TaskCall(op, cluster, names, scalar, task_status) ==
    [op |-> op, cluster |-> cluster, names |-> names, scalar |-> scalar,
     ok |-> task_status.raised = "none" /\ task_status.status # "failed",
     status |-> task_status.status,
     log |-> IF task_status.status = "failed" THEN task_status.log ELSE ""]

\* ------------------------------------------------------ cluster directory
RECURSIVE clusters_for_asgs_loop(_, _, _, _)
clusters_for_asgs_loop(cluster_json, asgs, idx, relevant_clusters) ==
    IF idx > Len(cluster_json)
    THEN [raised |-> "none", value |-> relevant_clusters]
    ELSE LET cluster == cluster_json[idx] IN
         IF "autoScalingGroups" \notin cluster.keys \/ "cluster" \notin cluster.keys
         THEN [raised |-> "BackendDataError", value |-> <<>>]
         ELSE clusters_for_asgs_loop(cluster_json, asgs, idx + 1,
                IF \E j \in 1..Len(cluster.autoScalingGroups) :
                        cluster.autoScalingGroups[j] \in asgs
                THEN (cluster.cluster :> cluster.autoScalingGroups) @@ relevant_clusters
                ELSE relevant_clusters)

\* Variant of clusters_for_asgs that looks at the first ASG of a cluster only.
RECURSIVE clusters_for_asgs_first_only_loop(_, _, _, _)
clusters_for_asgs_first_only_loop(cluster_json, asgs, idx, relevant_clusters) ==
    IF idx > Len(cluster_json)
    THEN [raised |-> "none", value |-> relevant_clusters]
    ELSE LET cluster == cluster_json[idx] IN
         IF "autoScalingGroups" \notin cluster.keys \/ "cluster" \notin cluster.keys
         THEN [raised |-> "BackendDataError", value |-> <<>>]
         ELSE clusters_for_asgs_first_only_loop(cluster_json, asgs, idx + 1,
                IF /\ cluster.autoScalingGroups # <<>>
                   /\ cluster.autoScalingGroups[1] \in asgs
                THEN (cluster.cluster :> cluster.autoScalingGroups) @@ relevant_clusters
                ELSE relevant_clusters)

clusters_for_asgs_first_only(cluster_json, asgs) ==
    clusters_for_asgs_first_only_loop(cluster_json, asgs, 1, <<>>)

\* Variant of clusters_for_asgs that rejects a record only when it lacks
\* both keys, and passes over a record it cannot read.
RECURSIVE clusters_for_asgs_both_missing_loop(_, _, _, _)
clusters_for_asgs_both_missing_loop(cluster_json, asgs, idx, relevant_clusters) ==
    IF idx > Len(cluster_json)
    THEN [raised |-> "none", value |-> relevant_clusters]
    ELSE LET cluster == cluster_json[idx] IN
         IF "autoScalingGroups" \notin cluster.keys /\ "cluster" \notin cluster.keys
         THEN [raised |-> "BackendDataError", value |-> <<>>]
         ELSE clusters_for_asgs_both_missing_loop(cluster_json, asgs, idx + 1,
                IF /\ {"autoScalingGroups", "cluster"} \subseteq cluster.keys
                   /\ \E j \in 1..Len(cluster.autoScalingGroups) :
                        cluster.autoScalingGroups[j] \in asgs
                THEN (cluster.cluster :> cluster.autoScalingGroups) @@ relevant_clusters
                ELSE relevant_clusters)

clusters_for_asgs_both_missing(cluster_json, asgs) ==
    clusters_for_asgs_both_missing_loop(cluster_json, asgs, 1, <<>>)

clusters_for_asgs(cluster_json, asgs) ==
    clusters_for_asgs_loop(cluster_json, asgs, 1, <<>>)

\* The ASG list of a cluster as the backend serves it, oldest first.
asgs_for_cluster(groups, cluster) == groups[cluster]

\* ------------------------------------------------------------ task poller
\* Variant of IsTerminal that takes a failed task for one still running.
IsTerminal_completed_only(status) == status = "completed"

IsTerminal(status) == status = "completed" \/ status = "failed"

DeadlineOpen_inclusive(end, clock) == end >= clock
DeadlineOpen(end, clock) == end > clock

StatusAt(statuses, n) ==
    statuses[IF n <= Len(statuses) THEN n ELSE Len(statuses)]

\* wait_for_task_completion with instantaneous requests: every iteration
\* ends with sleep(1), so the n-th poll is made at second n - 1 after the
\* call began, provided the loop condition end_time > utcnow() holds then.
\* The call returns the payload of the first poll with a terminal status and
\* raises TimeoutException if there is none.
wait_for_task_completion(task, timeout) ==
    LET end == 0 + timeout
        polls == {n \in 1..(end + 1) : DeadlineOpen(end, n - 1)}
        hits == {n \in polls : IsTerminal(StatusAt(task.statuses, n))}
    IN  IF hits # {}
        THEN LET first == CHOOSE n \in hits : \A m \in hits : n <= m IN
             [raised |-> "none", status |-> StatusAt(task.statuses, first), log |-> task.log]
        ELSE [raised |-> "TimeoutException", status |-> "running", log |-> ""]

\* What the poller can hand back to each of its three callers.
CreateTaskResults == {wait_for_task_completion(task, ASGARD_WAIT_TIMEOUT) : task \in Tasks}
EnableTaskResults == {wait_for_task_completion(task, ENABLE_WAIT_TIMEOUT) : task \in Tasks}
DisableTaskResults == {wait_for_task_completion(task, DISABLE_WAIT_TIMEOUT) : task \in Tasks}

\* ---------------------------------------------------- ASG lifecycle calls
\* Each returns the calls it made, the exception it raised (type "none" if
\* it returned) with at relative to the calls made, and its effect. The
\* parameter response/task_status is what wait_for_task_completion gave.

\* Variant of new_asg that asks for the cluster's ASG list before it looks
\* at the status of the task.
new_asg_query_first(groups, cluster, response) ==
    LET post == TaskCall("createNextGroup", cluster, <<>>, TRUE, response)
        show == Call("cluster_show", cluster, <<>>, TRUE, TRUE)
        created == Asg(cluster, Len(groups[cluster]) + 1)
        after == [groups EXCEPT ![cluster] = Append(@, created)]
    IN  IF response.raised # "none"
        THEN [calls |-> <<post>>, raised |-> Error(response.raised, 1, ""),
              groups |-> groups, value |-> Asg(0, 0)]
        ELSE IF response.status = "failed"
        THEN [calls |-> <<post, show>>, raised |-> Error("BackendError", 1, response.log),
              groups |-> groups, value |-> Asg(0, 0)]
        ELSE LET names == asgs_for_cluster(after, cluster) IN
             [calls |-> <<post, show>>,
              raised |-> NoError, groups |-> after, value |-> names[Len(names)]]

\* The backend appends the next ASG of the cluster when the creation task
\* completes.
new_asg(groups, cluster, response) ==
    LET post == TaskCall("createNextGroup", cluster, <<>>, TRUE, response)
        created == Asg(cluster, Len(groups[cluster]) + 1)
        after == [groups EXCEPT ![cluster] = Append(@, created)]
    IN  IF response.raised # "none"
        THEN [calls |-> <<post>>, raised |-> Error(response.raised, 1, ""),
              groups |-> groups, value |-> Asg(0, 0)]
        ELSE IF response.status = "failed"
        THEN [calls |-> <<post>>, raised |-> Error("BackendError", 1, response.log),
              groups |-> groups, value |-> Asg(0, 0)]
        ELSE LET names == asgs_for_cluster(after, cluster) IN
             [calls |-> <<post, Call("cluster_show", cluster, <<>>, TRUE, TRUE)>>,
              raised |-> NoError, groups |-> after, value |-> names[Len(names)]]

enable_asg(asg, task_status) ==
    LET post == TaskCall("activate", asg.cluster, <<asg>>, TRUE, task_status) IN
    IF task_status.raised # "none"
    THEN [calls |-> <<post>>, raised |-> Error(task_status.raised, 1, "")]
    ELSE IF task_status.status = "failed"
    THEN [calls |-> <<post>>, raised |-> Error("BackendError", 1, task_status.log)]
    ELSE [calls |-> <<post>>, raised |-> NoError]

\* names is the value of the request's "name" parameter: the single name
\* when a string is passed (scalar), every element when a list is passed.
disable_asg(cluster, names, scalar, task_status) ==
    LET post == TaskCall("deactivate", cluster, names, scalar, task_status) IN
    IF task_status.raised # "none"
    THEN [calls |-> <<post>>, raised |-> Error(task_status.raised, 1, "")]
    ELSE IF task_status.status = "failed"
    THEN [calls |-> <<post>>, raised |-> Error("BackendError", 1, task_status.log)]
    ELSE [calls |-> <<post>>, raised |-> NoError]

\* ------------------------------------------------------------------ state
VARIABLES
    pc,                \* position of deploy
    listing,           \* the backend's cluster listing (cluster/list.json)
    asgs,              \* ec2.asgs_for_edc(edc): the ASGs carrying the EDC tags
    groups,            \* backend: cluster -> its ASG list, oldest first
    existing_clusters, \* deploy: cluster -> ASG list, as discovered
    ec_order,          \* iteration order of the dict existing_clusters
    new_asgs,          \* deploy: cluster -> name of the ASG created for it
    na_order,          \* iteration order of the dict new_asgs
    i,                 \* index of the running for loop
    elbs_to_monitor,   \* deploy: load balancers collected while activating
    calls,             \* every outgoing call of the run, in order
    first_error,       \* the exception of the first failing step
    raised,            \* the exception deploy let through to its caller
    t_pc,              \* position of wait_for_task_completion
    timeout,           \* its timeout argument
    now,               \* datetime.utcnow(), in seconds
    end_time,          \* its deadline
    seen,              \* the status of every poll made so far
    response,          \* what it returned or raised
    began,             \* the clock when wait_for_task_completion was called
    polled_at,         \* the clock at the start of every poll made so far
    creators           \* the concurrent new_asg calls on one cluster

deploy_vars == <<pc, listing, asgs, groups, existing_clusters, ec_order, new_asgs,
                 na_order, i, elbs_to_monitor, calls, first_error, raised>>
poll_vars == <<t_pc, timeout, now, end_time, seen, response, began, polled_at>>
race_vars == <<creators>>
vars == <<deploy_vars, poll_vars, race_vars>>

\* The orders in which a dict with key set S can be iterated.
\* A health gate of ec2 comes back within its deadline: it returns (TRUE) or
\* raises TimeoutException (FALSE).
GateOutcomes == BOOLEAN

Orders(S) == {o \in [1..Cardinality(S) -> S] : \A a, b \in DOMAIN o : a # b => o[a] # o[b]}

\* The listing of n clusters, cluster c holding olds[c] ASGs, with the key
\* missing removed from record bad (bad = 0: every record is well formed).
Listing(n, olds, bad, missing) ==
    [c \in 1..n |->
        [keys |-> {"cluster", "autoScalingGroups"} \ (IF c = bad THEN {missing} ELSE {}),
         cluster |-> c,
         autoScalingGroups |-> [v \in 1..olds[c] |-> Asg(c, v)]]]

\* A new_asg call that has not begun.
NotCalled ==
    [pc |-> "call", task |-> "none", before |-> <<>>, made |-> Asg(0, 0),
     listed |-> <<>>, value |-> Asg(0, 0), raised |-> "none", disturbed |-> FALSE]
RaceIdle == creators = [p \in 1..MaxCreators |-> [NotCalled EXCEPT !.pc = "idle"]]

PollIdle ==
    /\ t_pc = "idle" /\ timeout = 0 /\ now = 0 /\ end_time = 0
    /\ seen = <<>> /\ response = [raised |-> "none", status |-> "none", log |-> ""]
    /\ began = 0 /\ polled_at = <<>>

\* The clusters of an EDC carry its tags on all their ASGs, so asgs_for_edc
\* yields every ASG of the tagged clusters.
Init ==
    /\ pc = "discover"
    /\ \E n \in 0..MaxClusters : \E olds \in [1..n -> 1..MaxOldAsgs] :
       \E bad \in 0..n, missing \in {"cluster", "autoScalingGroups"} :
          /\ (bad = 0 => missing = "cluster")
          /\ listing = Listing(n, olds, bad, missing)
          /\ groups = [c \in 1..n |-> listing[c].autoScalingGroups]
          /\ \E tagged \in SUBSET (1..n) :
                asgs = {a \in {Asg(c, v) : c \in tagged, v \in 1..MaxOldAsgs} :
                           a.version <= olds[a.cluster]}
    /\ existing_clusters = <<>> /\ ec_order = <<>>
    /\ new_asgs = <<>> /\ na_order = <<>>
    /\ i = 0
    /\ elbs_to_monitor = <<>>
    /\ calls = <<>>
    /\ first_error = NoError /\ raised = NoError
    /\ PollIdle
    /\ RaceIdle

\* ----------------------------------------------------------------- deploy
\* The exception exc of a callee, at made absolute in the run's calls.
Placed(exc) == Error(exc.type, Len(calls) + exc.at, exc.log)

\* DISCOVER: existing_clusters = clusters_for_asgs(asgs).
Discover ==
    /\ pc = "discover"
    /\ LET r == clusters_for_asgs(listing, asgs) IN
       /\ calls' = Append(calls, Call("cluster_list", 0, <<>>, TRUE, r.raised = "none"))
       /\ IF r.raised # "none"
          THEN /\ first_error' = Error(r.raised, Len(calls) + 1, "")
               /\ raised' = first_error'
               /\ pc' = "raised"
               /\ UNCHANGED <<existing_clusters, ec_order, i>>
          ELSE /\ existing_clusters' = r.value
               /\ ec_order' \in Orders(DOMAIN r.value)
               /\ pc' = IF DOMAIN r.value = {} THEN "await_instances" ELSE "create"
               /\ i' = 1
               /\ UNCHANGED <<first_error, raised>>
    /\ UNCHANGED <<listing, asgs, groups, new_asgs, na_order, elbs_to_monitor, poll_vars, race_vars>>

\* Variant of CreateStep that passes over a cluster whose creation failed
\* and goes on with the next one.
CreateStep_skip_failed ==
    /\ pc = "create"
    /\ \E task_result \in CreateTaskResults :
         LET cluster == ec_order[i]
             r == new_asg(groups, cluster, task_result)
         IN  /\ calls' = calls \o r.calls
             /\ groups' = r.groups
             /\ new_asgs' = IF r.raised.type # "none" THEN new_asgs
                            ELSE (cluster :> r.value) @@ new_asgs
             /\ pc' = IF i = Len(ec_order) THEN "await_instances" ELSE "create"
             /\ i' = i + 1
             /\ UNCHANGED <<first_error, raised>>
    /\ UNCHANGED <<listing, asgs, existing_clusters, ec_order, na_order,
                   elbs_to_monitor, poll_vars, race_vars>>

\* Variant of CreateStep that deactivates the ASGs already created before
\* it lets the failure through.
CreateStep_rollback ==
    /\ pc = "create"
    /\ \E task_result \in CreateTaskResults, rollback_status \in DisableTaskResults :
         LET cluster == ec_order[i]
             r == new_asg(groups, cluster, task_result)
             undo == [j \in 1..(i - 1) |->
                        disable_asg(ec_order[j], <<new_asgs[ec_order[j]]>>, TRUE,
                                    rollback_status).calls[1]]
         IN  /\ groups' = r.groups
             /\ IF r.raised.type # "none"
                THEN /\ calls' = calls \o r.calls \o undo
                     /\ first_error' = Placed(r.raised)
                     /\ raised' = first_error'
                     /\ pc' = "raised"
                     /\ UNCHANGED <<new_asgs, i>>
                ELSE /\ calls' = calls \o r.calls
                     /\ new_asgs' = (cluster :> r.value) @@ new_asgs
                     /\ pc' = IF i = Len(ec_order) THEN "await_instances" ELSE "create"
                     /\ i' = i + 1
                     /\ UNCHANGED <<first_error, raised>>
    /\ UNCHANGED <<listing, asgs, existing_clusters, ec_order, na_order,
                   elbs_to_monitor, poll_vars, race_vars>>

\* CREATE: one iteration of the loop over existing_clusters.keys().
CreateStep ==
    /\ pc = "create"
    /\ \E task_result \in CreateTaskResults :
         LET cluster == ec_order[i]
             r == new_asg(groups, cluster, task_result)
         IN  /\ calls' = calls \o r.calls
             /\ groups' = r.groups
             /\ IF r.raised.type # "none"
                THEN /\ first_error' = Placed(r.raised)
                     /\ raised' = first_error'
                     /\ pc' = "raised"
                     /\ UNCHANGED <<new_asgs, i>>
                ELSE /\ new_asgs' = (cluster :> r.value) @@ new_asgs
                     /\ pc' = IF i = Len(ec_order) THEN "await_instances" ELSE "create"
                     /\ i' = i + 1
                     /\ UNCHANGED <<first_error, raised>>
    /\ UNCHANGED <<listing, asgs, existing_clusters, ec_order, na_order,
                   elbs_to_monitor, poll_vars, race_vars>>

\* Variant of AwaitInstances that deactivates the new ASGs when the
\* instance gate fails, before it lets the failure through.
AwaitInstances_rollback ==
    /\ pc = "await_instances"
    /\ \E ok \in GateOutcomes, order \in Orders(DOMAIN new_asgs),
          rollback_status \in DisableTaskResults :
         LET gate == Call("wait_for_in_service", 0,
                          [k \in 1..Len(order) |-> new_asgs[order[k]]], FALSE, ok)
             undo == [k \in 1..Len(order) |->
                        disable_asg(order[k], <<new_asgs[order[k]]>>, TRUE,
                                    rollback_status).calls[1]]
         IN  /\ na_order' = order
             /\ IF ok
                THEN /\ calls' = Append(calls, gate)
                     /\ pc' = IF order = <<>> THEN "await_elb" ELSE "activate"
                     /\ i' = 1
                     /\ UNCHANGED <<first_error, raised>>
                ELSE /\ calls' = Append(calls, gate) \o undo
                     /\ first_error' = Error("TimeoutException", Len(calls) + 1, "")
                     /\ raised' = first_error'
                     /\ pc' = "raised"
                     /\ UNCHANGED i
    /\ UNCHANGED <<listing, asgs, groups, existing_clusters, ec_order, new_asgs,
                   elbs_to_monitor, poll_vars, race_vars>>

\* Variant of AwaitInstances that swallows the failure of the instance gate
\* and goes on to activate.
AwaitInstances_swallow ==
    /\ pc = "await_instances"
    /\ \E ok \in GateOutcomes, order \in Orders(DOMAIN new_asgs) :
         /\ na_order' = order
         /\ calls' = Append(calls, Call("wait_for_in_service", 0,
                              [k \in 1..Len(order) |-> new_asgs[order[k]]], FALSE, ok))
         /\ pc' = IF order = <<>> THEN "await_elb" ELSE "activate"
         /\ i' = 1
         /\ UNCHANGED <<first_error, raised>>
    /\ UNCHANGED <<listing, asgs, groups, existing_clusters, ec_order, new_asgs,
                   elbs_to_monitor, poll_vars, race_vars>>

\* AWAIT_INSTANCES_HEALTHY: ec2.wait_for_in_service(new_asgs.values(), 300).
AwaitInstances ==
    /\ pc = "await_instances"
    /\ \E ok \in GateOutcomes, order \in Orders(DOMAIN new_asgs) :
         /\ na_order' = order
         /\ calls' = Append(calls, Call("wait_for_in_service", 0,
                              [k \in 1..Len(order) |-> new_asgs[order[k]]], FALSE, ok))
         /\ IF ok
            THEN /\ pc' = IF order = <<>> THEN "await_elb" ELSE "activate"
                 /\ i' = 1
                 /\ UNCHANGED <<first_error, raised>>
            ELSE /\ first_error' = Error("TimeoutException", Len(calls) + 1, "")
                 /\ raised' = first_error'
                 /\ pc' = "raised"
                 /\ UNCHANGED i
    /\ UNCHANGED <<listing, asgs, groups, existing_clusters, ec_order, new_asgs,
                   elbs_to_monitor, poll_vars, race_vars>>

\* Variant of ActivateStep whose except clause deactivates the ASG and then
\* goes on with the next one instead of raising.
ActivateStep_swallow ==
    /\ pc = "activate"
    /\ \E task_status \in EnableTaskResults, lookup_ok \in BOOLEAN,
          rollback_status \in DisableTaskResults :
         LET cluster == na_order[i]
             asg == new_asgs[cluster]
             en == enable_asg(asg, task_status)
             tried == IF en.raised.type = "none"
                      THEN en.calls \o <<Call("asg_info", cluster, <<asg>>, TRUE, lookup_ok)>>
                      ELSE en.calls
             failed == en.raised.type # "none" \/ ~lookup_ok
             dis == disable_asg(cluster, <<asg>>, TRUE, rollback_status)
         IN  /\ calls' = IF failed THEN calls \o tried \o dis.calls ELSE calls \o tried
             /\ elbs_to_monitor' = IF failed THEN elbs_to_monitor
                                   ELSE Append(elbs_to_monitor, cluster)
             /\ pc' = IF i = Len(na_order) THEN "await_elb" ELSE "activate"
             /\ i' = i + 1
             /\ UNCHANGED <<first_error, raised>>
    /\ UNCHANGED <<listing, asgs, groups, existing_clusters, ec_order, new_asgs,
                   na_order, poll_vars, race_vars>>

\* Variant of ActivateStep whose except clause deactivates the old ASGs of
\* the cluster instead of the new ASG.
ActivateStep_rollback_old ==
    /\ pc = "activate"
    /\ \E task_status \in EnableTaskResults, lookup_ok \in BOOLEAN,
          rollback_status \in DisableTaskResults :
         LET cluster == na_order[i]
             asg == new_asgs[cluster]
             en == enable_asg(asg, task_status)
             tried == IF en.raised.type = "none"
                      THEN en.calls \o <<Call("asg_info", cluster, <<asg>>, TRUE, lookup_ok)>>
                      ELSE en.calls
             exc == IF en.raised.type # "none" THEN Placed(en.raised)
                    ELSE IF ~lookup_ok THEN Error("KeyError", Len(calls) + 2, "")
                    ELSE NoError
             dis == disable_asg(cluster, existing_clusters[cluster], FALSE, rollback_status)
         IN  IF exc.type = "none"
             THEN /\ calls' = calls \o tried
                  /\ elbs_to_monitor' = Append(elbs_to_monitor, cluster)
                  /\ pc' = IF i = Len(na_order) THEN "await_elb" ELSE "activate"
                  /\ i' = i + 1
                  /\ UNCHANGED <<first_error, raised>>
             ELSE /\ calls' = calls \o tried \o dis.calls
                  /\ first_error' = exc
                  /\ raised' = IF dis.raised.type = "none" THEN exc
                               ELSE Error(dis.raised.type, Len(calls'), dis.raised.log)
                  /\ pc' = "raised"
                  /\ UNCHANGED <<elbs_to_monitor, i>>
    /\ UNCHANGED <<listing, asgs, groups, existing_clusters, ec_order, new_asgs,
                   na_order, poll_vars, race_vars>>

\* ACTIVATE: one iteration of the loop over new_asgs.iteritems(), its
\* except clause included.
ActivateStep ==
    /\ pc = "activate"
    /\ \E task_status \in EnableTaskResults, lookup_ok \in BOOLEAN,
          rollback_status \in DisableTaskResults :
         LET cluster == na_order[i]
             asg == new_asgs[cluster]
             en == enable_asg(asg, task_status)
             tried == IF en.raised.type = "none"
                      THEN en.calls \o <<Call("asg_info", cluster, <<asg>>, TRUE, lookup_ok)>>
                      ELSE en.calls
             exc == IF en.raised.type # "none" THEN Placed(en.raised)
                    ELSE IF ~lookup_ok THEN Error("KeyError", Len(calls) + 2, "")
                    ELSE NoError
             dis == disable_asg(cluster, <<asg>>, TRUE, rollback_status)
         IN  IF exc.type = "none"
             THEN /\ calls' = calls \o tried
                  /\ elbs_to_monitor' = Append(elbs_to_monitor, cluster)
                  /\ pc' = IF i = Len(na_order) THEN "await_elb" ELSE "activate"
                  /\ i' = i + 1
                  /\ UNCHANGED <<first_error, raised>>
             ELSE /\ calls' = calls \o tried \o dis.calls
                  /\ first_error' = exc
                  /\ raised' = IF dis.raised.type = "none" THEN exc
                               ELSE Error(dis.raised.type, Len(calls'), dis.raised.log)
                  /\ pc' = "raised"
                  /\ UNCHANGED <<elbs_to_monitor, i>>
    /\ UNCHANGED <<listing, asgs, groups, existing_clusters, ec_order, new_asgs,
                   na_order, poll_vars, race_vars>>

\* Variant of AwaitElb that retires the old ASGs whatever the gate said.
AwaitElb_retire_anyway ==
    /\ pc = "await_elb"
    /\ \E ok \in GateOutcomes :
         /\ calls' = Append(calls, Call("wait_for_healthy_elbs", 0, <<>>, FALSE, ok))
         /\ pc' = IF ec_order = <<>> THEN "done" ELSE "retire"
         /\ UNCHANGED <<first_error, raised>>
         /\ i' = 1
    /\ UNCHANGED <<listing, asgs, groups, existing_clusters, ec_order, new_asgs,
                   na_order, elbs_to_monitor, poll_vars, race_vars>>

\* AWAIT_ELB_HEALTHY: ec2.wait_for_healthy_elbs(elbs_to_monitor, 600).
AwaitElb ==
    /\ pc = "await_elb"
    /\ \E ok \in GateOutcomes :
         /\ calls' = Append(calls, Call("wait_for_healthy_elbs", 0, <<>>, FALSE, ok))
         /\ IF ok
            THEN /\ pc' = IF ec_order = <<>> THEN "done" ELSE "retire"
                 /\ UNCHANGED <<first_error, raised>>
            ELSE /\ first_error' = Error("TimeoutException", Len(calls) + 1, "")
                 /\ raised' = IF na_order = <<>> THEN first_error' ELSE raised
                 /\ pc' = IF na_order = <<>> THEN "raised" ELSE "elb_rollback"
         /\ i' = 1
    /\ UNCHANGED <<listing, asgs, groups, existing_clusters, ec_order, new_asgs,
                   na_order, elbs_to_monitor, poll_vars, race_vars>>

\* Variant of ElbRollbackStep whose handler lacks the final raise: once the
\* new ASGs are deactivated the run goes on to retire the old ones.
ElbRollbackStep_no_raise ==
    /\ pc = "elb_rollback"
    /\ \E task_status \in DisableTaskResults :
         LET cluster == na_order[i]
             asg == new_asgs[cluster]
             dis == disable_asg(cluster, <<asg>>, TRUE, task_status)
         IN  /\ calls' = calls \o dis.calls
             /\ IF dis.raised.type # "none"
                THEN /\ raised' = Placed(dis.raised)
                     /\ pc' = "raised"
                     /\ UNCHANGED i
                ELSE IF i = Len(na_order)
                THEN /\ pc' = "retire"
                     /\ i' = 1
                     /\ UNCHANGED raised
                ELSE /\ i' = i + 1
                     /\ UNCHANGED <<pc, raised>>
    /\ UNCHANGED <<listing, asgs, groups, existing_clusters, ec_order, new_asgs,
                   na_order, elbs_to_monitor, first_error, poll_vars, race_vars>>

\* Variant of ElbRollbackStep that goes on with the next new ASG when a
\* deactivation fails.
ElbRollbackStep_keep_going ==
    /\ pc = "elb_rollback"
    /\ \E task_status \in DisableTaskResults :
         LET cluster == na_order[i]
             asg == new_asgs[cluster]
             dis == disable_asg(cluster, <<asg>>, TRUE, task_status)
         IN  /\ calls' = calls \o dis.calls
             /\ IF i = Len(na_order)
                THEN /\ raised' = first_error
                     /\ pc' = "raised"
                     /\ UNCHANGED i
                ELSE /\ i' = i + 1
                     /\ UNCHANGED <<pc, raised>>
    /\ UNCHANGED <<listing, asgs, groups, existing_clusters, ec_order, new_asgs,
                   na_order, elbs_to_monitor, first_error, poll_vars, race_vars>>

\* One iteration of the loop in the except clause of the load-balancer
\* gate; the bare raise follows the last one.
ElbRollbackStep ==
    /\ pc = "elb_rollback"
    /\ \E task_status \in DisableTaskResults :
         LET cluster == na_order[i]
             asg == new_asgs[cluster]
             dis == disable_asg(cluster, <<asg>>, TRUE, task_status)
         IN  /\ calls' = calls \o dis.calls
             /\ IF dis.raised.type # "none"
                THEN /\ raised' = Placed(dis.raised)
                     /\ pc' = "raised"
                     /\ UNCHANGED i
                ELSE IF i = Len(na_order)
                THEN /\ raised' = first_error
                     /\ pc' = "raised"
                     /\ UNCHANGED i
                ELSE /\ i' = i + 1
                     /\ UNCHANGED <<pc, raised>>
    /\ UNCHANGED <<listing, asgs, groups, existing_clusters, ec_order, new_asgs,
                   na_order, elbs_to_monitor, first_error, poll_vars, race_vars>>

\* Variant of RetireStep that deactivates the new ASG of the cluster when
\* the retirement of its old ASGs fails.
RetireStep_rollback ==
    /\ pc = "retire"
    /\ \E task_status \in DisableTaskResults, rollback_status \in DisableTaskResults :
         LET cluster == ec_order[i]
             asg == existing_clusters[cluster]
             dis == disable_asg(cluster, asg, FALSE, task_status)
             undo == disable_asg(cluster, <<new_asgs[cluster]>>, TRUE, rollback_status)
         IN  IF dis.raised.type # "none"
             THEN /\ calls' = calls \o dis.calls \o undo.calls
                  /\ first_error' = Placed(dis.raised)
                  /\ raised' = first_error'
                  /\ pc' = "raised"
                  /\ UNCHANGED i
             ELSE /\ calls' = calls \o dis.calls
                  /\ pc' = IF i = Len(ec_order) THEN "done" ELSE "retire"
                  /\ i' = i + 1
                  /\ UNCHANGED <<first_error, raised>>
    /\ UNCHANGED <<listing, asgs, groups, existing_clusters, ec_order, new_asgs,
                   na_order, elbs_to_monitor, poll_vars, race_vars>>

\* RETIRE_OLD: one iteration of the loop over existing_clusters.iteritems();
\* the value handed to disable_asg is the cluster's whole ASG list.
RetireStep ==
    /\ pc = "retire"
    /\ \E task_status \in DisableTaskResults :
         LET cluster == ec_order[i]
             asg == existing_clusters[cluster]
             dis == disable_asg(cluster, asg, FALSE, task_status)
         IN  /\ calls' = calls \o dis.calls
             /\ IF dis.raised.type # "none"
                THEN /\ first_error' = Placed(dis.raised)
                     /\ raised' = first_error'
                     /\ pc' = "raised"
                     /\ UNCHANGED i
                ELSE /\ pc' = IF i = Len(ec_order) THEN "done" ELSE "retire"
                     /\ i' = i + 1
                     /\ UNCHANGED <<first_error, raised>>
    /\ UNCHANGED <<listing, asgs, groups, existing_clusters, ec_order, new_asgs,
                   na_order, elbs_to_monitor, poll_vars, race_vars>>

Next ==
    \/ Discover
    \/ CreateStep
    \/ AwaitInstances
    \/ ActivateStep
    \/ AwaitElb
    \/ ElbRollbackStep
    \/ RetireStep

Spec == Init /\ [][Next]_vars

\* ------------------------------------------- the task poller, step by step
\* wait_for_task_completion on its own clock: a status request takes up to
\* REQUESTS_TIMEOUT seconds and may observe any status, sleep(1) one second.
DeployIdle ==
    /\ pc = "idle" /\ listing = <<>> /\ asgs = {} /\ groups = <<>>
    /\ existing_clusters = <<>> /\ ec_order = <<>> /\ new_asgs = <<>> /\ na_order = <<>>
    /\ i = 0 /\ elbs_to_monitor = <<>> /\ calls = <<>>
    /\ first_error = NoError /\ raised = NoError

InitPoll ==
    /\ DeployIdle
    /\ RaceIdle
    /\ t_pc = "start"
    /\ timeout \in -1..MaxTimeout
    /\ now \in 0..1
    /\ end_time = 0
    /\ seen = <<>>
    /\ response = [raised |-> "none", status |-> "none", log |-> ""]
    /\ began = now
    /\ polled_at = <<>>

\* end_time = datetime.utcnow() + timedelta(seconds=timeout)
PollBegin ==
    /\ t_pc = "start"
    /\ end_time' = now + timeout
    /\ t_pc' = "loop"
    /\ UNCHANGED <<timeout, now, seen, response, began, polled_at, deploy_vars, race_vars>>

\* The loop condition holds: one status request, returned if terminal.
PollRequest ==
    /\ t_pc = "loop"
    /\ DeadlineOpen(end_time, now)
    /\ \E status \in Statuses, log \in Logs, took \in 0..REQUESTS_TIMEOUT :
         /\ seen' = Append(seen, status)
         /\ polled_at' = Append(polled_at, now)
         /\ now' = now + took
         /\ IF IsTerminal(status)
            THEN /\ response' = [raised |-> "none", status |-> status, log |-> log]
                 /\ t_pc' = "returned"
            ELSE /\ t_pc' = "sleep"
                 /\ UNCHANGED response
    /\ UNCHANGED <<timeout, end_time, began, deploy_vars, race_vars>>

\* time.sleep(1)
PollSleep ==
    /\ t_pc = "sleep"
    /\ now' = now + 1
    /\ t_pc' = "loop"
    /\ UNCHANGED <<timeout, end_time, seen, response, began, polled_at, deploy_vars, race_vars>>

\* Variant of PollTimeout that keeps waiting past the deadline instead of
\* raising.
PollTimeout_keeps_waiting ==
    /\ t_pc = "loop"
    /\ ~DeadlineOpen(end_time, now)
    /\ UNCHANGED vars

\* The loop condition fails: raise TimeoutException.
PollTimeout ==
    /\ t_pc = "loop"
    /\ ~DeadlineOpen(end_time, now)
    /\ response' = [raised |-> "TimeoutException", status |-> "running", log |-> ""]
    /\ t_pc' = "raised"
    /\ UNCHANGED <<timeout, now, end_time, seen, began, polled_at, deploy_vars, race_vars>>

NextPoll ==
    \/ PollBegin
    \/ PollRequest
    \/ PollSleep
    \/ PollTimeout

SpecPoll == InitPoll /\ [][NextPoll]_vars

\* ------------------------------------------ the cluster directory alone
\* clusters_for_asgs over any listing: a cluster holds any ascending choice
\* of the ASG names Asg(1, 1..MaxOldAsgs) (an ASG may sit in several
\* clusters, a cluster may be empty), asgs is any set of these names, and
\* one record may lack one or both of its keys.
DirNames == {Asg(1, v) : v \in 1..MaxOldAsgs}

DirLists ==
    {[k \in 1..Len(s) |-> Asg(1, s[k])] :
        s \in {t \in UNION {[1..m -> 1..MaxOldAsgs] : m \in 0..MaxOldAsgs} :
                  \A a, b \in DOMAIN t : a < b => t[a] < t[b]}}

InitDir ==
    /\ pc = "discover"
    /\ \E n \in 0..MaxClusters : \E lists \in [1..n -> DirLists] :
       \E bad \in 0..n, missing \in SUBSET {"cluster", "autoScalingGroups"} :
          /\ (bad = 0) = (missing = {})
          /\ listing = [c \in 1..n |->
                          [keys |-> {"cluster", "autoScalingGroups"}
                                       \ (IF c = bad THEN missing ELSE {}),
                           cluster |-> c,
                           autoScalingGroups |-> lists[c]]]
          /\ groups = lists
    /\ asgs \in SUBSET DirNames
    /\ existing_clusters = <<>> /\ ec_order = <<>>
    /\ new_asgs = <<>> /\ na_order = <<>>
    /\ i = 0
    /\ elbs_to_monitor = <<>>
    /\ calls = <<>>
    /\ first_error = NoError /\ raised = NoError
    /\ PollIdle
    /\ RaceIdle

NextDir == Discover

SpecDir == InitDir /\ [][NextDir]_vars

\* --------------------------------------------------------------- progress
\* A run of deploy over a well-formed or malformed listing whose clusters
\* all have MaxOldAsgs ASGs, any of them tagged.
InitRun ==
    /\ pc = "discover"
    /\ \E n \in 0..MaxClusters, bad \in 0..1, tagged \in SUBSET (1..MaxClusters) :
          /\ bad <= n /\ tagged \subseteq 1..n
          /\ listing = Listing(n, [c \in 1..n |-> MaxOldAsgs], bad, "cluster")
          /\ groups = [c \in 1..n |-> listing[c].autoScalingGroups]
          /\ asgs = {Asg(c, v) : c \in tagged, v \in 1..MaxOldAsgs}
    /\ existing_clusters = <<>> /\ ec_order = <<>>
    /\ new_asgs = <<>> /\ na_order = <<>>
    /\ i = 0
    /\ elbs_to_monitor = <<>>
    /\ calls = <<>>
    /\ first_error = NoError /\ raised = NoError
    /\ PollIdle
    /\ RaceIdle

\* deploy has a next statement to run.
Running == pc \notin {"idle", "done", "raised"}

\* deploy and wait_for_task_completion run in one thread that is never
\* suspended for good: a step that can be taken is taken. The last conjunct
\* is WF_vars(Next) with ENABLED <<Next>>_vars written as the state
\* predicate Running, which it equals in every reachable state.
InitFair == InitRun \/ InitPoll
NextFair == Next \/ NextPoll
FairSpec ==
    /\ InitFair
    /\ [][NextFair]_vars
    /\ WF_vars(NextPoll)
    /\ ([]<>~Running \/ []<><<Next>>_vars)

\* ------------------------------------------- concurrent creation (new_asg)
\* Several callers run new_asg on cluster 1 at once; each call goes through
\* its request, its wait for the task and its query of the cluster.
InitRace ==
    /\ pc = "idle" /\ listing = <<>> /\ asgs = {}
    /\ \E n \in 0..MaxOldAsgs : groups = <<[k \in 1..n |-> Asg(1, k)]>>
    /\ existing_clusters = <<>> /\ ec_order = <<>> /\ new_asgs = <<>> /\ na_order = <<>>
    /\ i = 0 /\ elbs_to_monitor = <<>> /\ calls = <<>>
    /\ first_error = NoError /\ raised = NoError
    /\ PollIdle
    /\ creators = [p \in 1..MaxCreators |-> NotCalled]

RaceUnchanged ==
    UNCHANGED <<pc, listing, asgs, existing_clusters, ec_order, new_asgs, na_order, i,
                elbs_to_monitor, calls, first_error, raised, poll_vars>>

\* requests.post(NEW_ASG_URL, ...): the backend starts a creation task.
RacePost(p) ==
    /\ creators[p].pc = "call"
    /\ creators' = [creators EXCEPT ![p] = [@ EXCEPT !.pc = "wait", !.task = "running",
                                                     !.before = groups[1]]]
    /\ UNCHANGED groups
    /\ RaceUnchanged

\* The backend ends the task of p: completed, with the next ASG of the
\* cluster appended to its list, or failed. Every other call that is between
\* its request and its query sees a creation that is not its own.
BackendEndsTask(p) ==
    /\ creators[p].task = "running"
    /\ \/ LET created == Asg(1, Len(groups[1]) + 1) IN
            /\ groups' = [groups EXCEPT ![1] = Append(@, created)]
            /\ creators' = [q \in 1..MaxCreators |->
                  IF q = p THEN [creators[q] EXCEPT !.task = "completed", !.made = created]
                  ELSE IF creators[q].pc \in {"wait", "query"}
                  THEN [creators[q] EXCEPT !.disturbed = TRUE]
                  ELSE creators[q]]
       \/ /\ creators' = [creators EXCEPT ![p] = [@ EXCEPT !.task = "failed"]]
          /\ UNCHANGED groups
    /\ RaceUnchanged

\* wait_for_task_completion returns the terminal payload; failed raises.
RaceWaitReturns(p) ==
    /\ creators[p].pc = "wait"
    /\ IsTerminal(creators[p].task)
    /\ creators' = [creators EXCEPT ![p] =
          IF creators[p].task = "failed"
          THEN [@ EXCEPT !.pc = "raised", !.raised = "BackendError"]
          ELSE [@ EXCEPT !.pc = "query"]]
    /\ UNCHANGED groups
    /\ RaceUnchanged

\* wait_for_task_completion runs out of time on a task still running.
RaceWaitTimesOut(p) ==
    /\ creators[p].pc = "wait"
    /\ creators[p].task = "running"
    /\ creators' = [creators EXCEPT ![p] = [@ EXCEPT !.pc = "raised",
                                                     !.raised = "TimeoutException"]]
    /\ UNCHANGED groups
    /\ RaceUnchanged

\* Variant of RaceQuery that returns the first entry of the list.
RaceQuery_first(p) ==
    /\ creators[p].pc = "query"
    /\ LET names == asgs_for_cluster(groups, 1) IN
         creators' = [creators EXCEPT ![p] = [@ EXCEPT !.pc = "returned", !.listed = names,
                                                       !.value = names[1]]]
    /\ UNCHANGED groups
    /\ RaceUnchanged

\* new_asg = asgs_for_cluster(cluster)[-1]
RaceQuery(p) ==
    /\ creators[p].pc = "query"
    /\ LET names == asgs_for_cluster(groups, 1) IN
         creators' = [creators EXCEPT ![p] = [@ EXCEPT !.pc = "returned", !.listed = names,
                                                       !.value = names[Len(names)]]]
    /\ UNCHANGED groups
    /\ RaceUnchanged

NextRace ==
    \E p \in 1..MaxCreators :
        \/ RacePost(p)
        \/ BackendEndsTask(p)
        \/ RaceWaitReturns(p)
        \/ RaceWaitTimesOut(p)
        \/ RaceQuery(p)

SpecRace == InitRace /\ [][NextRace]_vars

TypeOK ==
    /\ pc \in {"idle", "discover", "create", "await_instances", "activate", "await_elb",
               "elb_rollback", "retire", "done", "raised"}
    /\ (pc = "raised") = (raised.type # "none")
    /\ \A k \in DOMAIN calls : calls[k].op \in {"cluster_list", "createNextGroup",
            "cluster_show", "wait_for_in_service", "activate", "asg_info",
            "wait_for_healthy_elbs", "deactivate"}

\* ------------------------------------------------------------- properties
NewNames == {new_asgs[c] : c \in DOMAIN new_asgs}
OldNames == UNION {{existing_clusters[c][j] : j \in DOMAIN existing_clusters[c]} :
                   c \in DOMAIN existing_clusters}
Names(k) == {calls[k].names[j] : j \in DOMAIN calls[k].names}
Deactivations == {k \in DOMAIN calls : calls[k].op = "deactivate"}
\* Deactivations that name a new ASG of the run, resp. an ASG discovered.
OnNew == {k \in Deactivations : Names(k) \cap NewNames # {}}
OnOld == {k \in Deactivations : Names(k) \cap OldNames # {}}
\* The op of the call at which the first failing step raised.
FailedOp == IF first_error.type = "none" THEN "none" ELSE calls[first_error.at].op

\* C1: every activation of a new ASG is preceded, in the same run, by an
\* instance health gate over all the new ASGs that returned successfully.
C1_ActivateAfterInstanceGate ==
    \A k \in DOMAIN calls :
        calls[k].op = "activate" =>
            \E g \in 1..(k - 1) :
                /\ calls[g].op = "wait_for_in_service"
                /\ calls[g].ok
                /\ Names(g) = NewNames
                /\ Names(k) \subseteq Names(g)

C1_Witness ==
    \E k \in DOMAIN calls : calls[k].op = "activate" /\ calls[k].ok

\* C2: an old ASG of a cluster is deactivated only after the cluster's new
\* ASG was activated successfully and the load-balancer gate returned
\* successfully; a run without a passed load-balancer gate deactivates no
\* old ASG.
C2_RetireAfterElbGate ==
    /\ \A k \in OnOld :
          \E g \in 1..(k - 1) :
              /\ calls[g].op = "wait_for_healthy_elbs"
              /\ calls[g].ok
              /\ \E a \in 1..(g - 1) :
                    /\ calls[a].op = "activate"
                    /\ calls[a].ok
                    /\ calls[a].names = <<new_asgs[calls[k].cluster]>>
    /\ (~ \E g \in DOMAIN calls : calls[g].op = "wait_for_healthy_elbs" /\ calls[g].ok)
          => OnOld = {}

C2_Witness ==
    /\ OnOld # {}
    /\ Cardinality(DOMAIN existing_clusters) >= 2

\* C3: when the load-balancer gate fails, every new ASG of the run receives
\* exactly one deactivation and no old ASG receives any, whatever the
\* outcome of the single deactivation tasks.
C3_ElbRollbackCoversEveryNewAsg ==
    (pc = "raised" /\ FailedOp = "wait_for_healthy_elbs") =>
        /\ \A c \in DOMAIN new_asgs :
              Cardinality({k \in Deactivations : calls[k].names = <<new_asgs[c]>>}) = 1
        /\ OnOld = {}

\* C4: the exception that reaches the caller of deploy is the one raised by
\* the first failing step, also after a compensating deactivation.
C4_CallerGetsFirstError ==
    pc = "raised" => raised = first_error

C6_CreateFailureEndsRun ==
    (pc = "raised" /\ FailedOp = "createNextGroup") =>
        /\ first_error.at = Len(calls)
        /\ raised = first_error
        /\ \A k \in DOMAIN calls :
              calls[k].op \notin {"deactivate", "activate", "asg_info",
                                  "wait_for_in_service", "wait_for_healthy_elbs"}
        /\ {calls[k].cluster : k \in {j \in DOMAIN calls : calls[j].op = "createNextGroup"}}
              = DOMAIN new_asgs \cup {calls[first_error.at].cluster}
        /\ Cardinality({k \in DOMAIN calls : calls[k].op = "createNextGroup"})
              = Cardinality(DOMAIN new_asgs) + 1

C6_Witness ==
    /\ pc = "raised"
    /\ FailedOp = "createNextGroup"
    /\ new_asgs # <<>>
    /\ \A c \in DOMAIN new_asgs : new_asgs[c] \in {groups[c][v] : v \in DOMAIN groups[c]}

C8_RetireEachOldAsgOnce ==
    pc = "done" =>
        /\ \A c \in DOMAIN existing_clusters :
              \A j \in DOMAIN existing_clusters[c] :
                  Cardinality({k \in Deactivations :
                                  calls[k].names = <<existing_clusters[c][j]>>}) = 1
        /\ \A c \in DOMAIN new_asgs :
              /\ Cardinality({k \in DOMAIN calls : /\ calls[k].op = "activate"
                                                    /\ calls[k].names = <<new_asgs[c]>>}) = 1
              /\ \A k \in Deactivations : new_asgs[c] \notin Names(k)

\* C9: wait_for_task_completion returns the payload of the first poll with
\* status completed or failed, raises TimeoutException when every poll made
\* before the deadline saw running, and never returns a running payload.
C9_PollerReturnsFirstTerminal ==
    /\ t_pc = "returned" =>
          /\ response.raised = "none"
          /\ seen # <<>>
          /\ response.status = seen[Len(seen)]
          /\ response.status \in {"completed", "failed"}
          /\ response.log \in Logs
    /\ t_pc = "raised" =>
          /\ response.raised = "TimeoutException"
          /\ \A k \in DOMAIN seen : seen[k] = "running"
    /\ \A k \in DOMAIN seen :
          seen[k] \in {"completed", "failed"} => (k = Len(seen) /\ t_pc = "returned")

C9_Witness ==
    /\ t_pc = "returned"
    /\ Len(seen) >= 2
    /\ seen[1] = "running"

\* C10: a creation task that reports failed makes new_asg raise BackendError
\* with the task log, without querying the cluster's ASG list; the list is
\* queried only right after a creation task that completed.
C10_FailedCreateNeverQueriesCluster ==
    /\ \A k \in DOMAIN calls :
          (calls[k].op = "createNextGroup" /\ calls[k].status = "failed") =>
              /\ k = Len(calls)
              /\ pc = "raised"
              /\ raised.type = "BackendError"
              /\ raised.at = k
              /\ raised.log = calls[k].log
              /\ raised.log \in Logs
    /\ \A k \in DOMAIN calls :
          calls[k].op = "cluster_show" =>
              /\ k > 1
              /\ calls[k - 1].op = "createNextGroup"
              /\ calls[k - 1].status = "completed"
              /\ calls[k - 1].cluster = calls[k].cluster

C10_Witness ==
    /\ pc = "raised"
    /\ calls[Len(calls)].op = "createNextGroup"
    /\ calls[Len(calls)].status = "failed"
    /\ raised.log = "boom"

\* The records of the listing with an ASG among the requested ones.
Matching == {k \in DOMAIN listing :
                \E j \in DOMAIN listing[k].autoScalingGroups :
                    listing[k].autoScalingGroups[j] \in asgs}
WellFormed == \A k \in DOMAIN listing : listing[k].keys = {"cluster", "autoScalingGroups"}

\* C11: on a well-formed listing clusters_for_asgs returns the mapping whose
\* keys are exactly the clusters with at least one requested ASG, each
\* mapped to the cluster's full ASG list.
C11_ClustersWithARequestedAsg ==
    (pc # "discover" /\ WellFormed) =>
        /\ FailedOp # "cluster_list"
        /\ DOMAIN existing_clusters = {listing[k].cluster : k \in Matching}
        /\ \A k \in Matching :
              existing_clusters[listing[k].cluster] = listing[k].autoScalingGroups

C11_Witness ==
    /\ pc # "discover"
    /\ WellFormed
    /\ \E k \in Matching :
          \E j \in DOMAIN listing[k].autoScalingGroups :
              listing[k].autoScalingGroups[j] \notin asgs
    /\ \E k \in DOMAIN listing :
          k \notin Matching /\ listing[k].autoScalingGroups # <<>>

\* C12: a listing with a record that lacks the cluster or the
\* autoScalingGroups key makes clusters_for_asgs raise BackendDataError and
\* return no mapping, wherever the record sits and whatever else matches.
C12_MalformedRecordRaises ==
    (pc # "discover" /\ ~WellFormed) =>
        /\ pc = "raised"
        /\ raised.type = "BackendDataError"
        /\ existing_clusters = <<>>

C12_Witness ==
    /\ pc = "raised"
    /\ Len(listing) >= 2
    /\ listing[1].keys = {"cluster", "autoScalingGroups"}
    /\ listing[2].keys = {"cluster"}
    /\ 1 \in Matching

\* The run got past the CREATE phase.
PastCreate ==
    \/ pc \in {"await_instances", "activate", "await_elb", "elb_rollback", "retire", "done"}
    \/ pc = "raised" /\ FailedOp \notin {"cluster_list", "createNextGroup"}

\* C13: createAsg is invoked at most once per discovered cluster and for no
\* other cluster; past the CREATE phase the plan maps every discovered
\* cluster to one new ASG name, a name the cluster did not hold before.
C13_OneNewAsgPerCluster ==
    /\ \A k \in DOMAIN calls :
          calls[k].op = "createNextGroup" =>
              /\ calls[k].cluster \in DOMAIN existing_clusters
              /\ \A j \in DOMAIN calls :
                    (calls[j].op = "createNextGroup" /\ calls[j].cluster = calls[k].cluster)
                        => j = k
    /\ DOMAIN new_asgs \subseteq DOMAIN existing_clusters
    /\ PastCreate =>
          /\ DOMAIN new_asgs = DOMAIN existing_clusters
          /\ \A c \in DOMAIN new_asgs :
                /\ new_asgs[c] \notin OldNames
                /\ \A d \in DOMAIN new_asgs : new_asgs[d] = new_asgs[c] => d = c

C13_Witness ==
    /\ PastCreate
    /\ Cardinality(DOMAIN new_asgs) = 2

\* C14: no new ASG of the run is named in more than one deactivation, and a
\* run whose activation loop rolled back never gets to the load-balancer
\* gate and its rollback.
C14_RollbackAtMostOncePerNewAsg ==
    /\ \A c \in DOMAIN new_asgs :
          Cardinality({k \in Deactivations : new_asgs[c] \in Names(k)}) <= 1
    /\ FailedOp \in {"activate", "asg_info"} =>
          \A k \in DOMAIN calls : calls[k].op # "wait_for_healthy_elbs"

C14_Witness ==
    /\ pc = "raised"
    /\ FailedOp = "wait_for_healthy_elbs"
    /\ Cardinality(OnNew) = 2

\* C15: when the instance gate fails, deploy raises its error with no
\* deactivation and no activation of any ASG in the run.
C15_InstanceGateFailureRollsBackNothing ==
    (\E g \in DOMAIN calls : calls[g].op = "wait_for_in_service" /\ ~calls[g].ok) =>
        /\ pc = "raised"
        /\ FailedOp = "wait_for_in_service"
        /\ raised = first_error
        /\ first_error.at = Len(calls)
        /\ Deactivations = {}
        /\ \A k \in DOMAIN calls : calls[k].op \notin {"activate", "asg_info"}

C15_Witness ==
    /\ pc = "raised"
    /\ FailedOp = "wait_for_in_service"
    /\ Cardinality(DOMAIN new_asgs) = 2

\* C16: when the deactivation of old ASGs fails, that error is raised, the
\* run is not done, and no new ASG is deactivated: every new ASG was
\* activated and is left so.
C16_RetireFailureIsForwardOnly ==
    (\E k \in OnOld : ~calls[k].ok) =>
        /\ pc = "raised"
        /\ FailedOp = "deactivate"
        /\ raised = first_error
        /\ first_error.at = Len(calls)
        /\ OnNew = {}
        /\ \A c \in DOMAIN new_asgs :
              \E a \in DOMAIN calls :
                  /\ calls[a].op = "activate" /\ calls[a].ok
                  /\ calls[a].names = <<new_asgs[c]>>

C16_Witness ==
    /\ pc = "raised"
    /\ FailedOp = "deactivate"
    /\ i = 2

\* The phase a call belongs to: 1 DISCOVER .. 6 RETIRE_OLD, and 0 for a
\* compensating deactivation of a new ASG (ABORT).
PhaseOf(k) ==
    IF calls[k].op = "cluster_list" THEN 1
    ELSE IF calls[k].op \in {"createNextGroup", "cluster_show"} THEN 2
    ELSE IF calls[k].op = "wait_for_in_service" THEN 3
    ELSE IF calls[k].op \in {"activate", "asg_info"} THEN 4
    ELSE IF calls[k].op = "wait_for_healthy_elbs" THEN 5
    ELSE IF k \in OnNew THEN 0
    ELSE 6
OkBefore(op, k) == \E g \in 1..(k - 1) : calls[g].op = op /\ calls[g].ok

\* C17: the calls of a run come in the order DISCOVER, CREATE,
\* AWAIT_INSTANCES_HEALTHY, ACTIVATE, AWAIT_ELB_HEALTHY, RETIRE_OLD, no phase
\* entered twice or before the one before it succeeded for every cluster;
\* the run is done only when every call succeeded; a compensating
\* deactivation follows only a failure in ACTIVATE or AWAIT_ELB_HEALTHY.
C17_PhasesInOrder ==
    /\ \A j, k \in DOMAIN calls :
          (j < k /\ PhaseOf(j) # 0 /\ PhaseOf(k) # 0) => PhaseOf(j) <= PhaseOf(k)
    /\ \A j, k \in DOMAIN calls :
          (calls[j].op = calls[k].op /\ PhaseOf(k) \in {1, 3, 5}) => j = k
    /\ \A k \in DOMAIN calls :
          /\ PhaseOf(k) >= 2 => OkBefore("cluster_list", k)
          /\ PhaseOf(k) >= 3 =>
                \A c \in DOMAIN existing_clusters :
                    \E g \in 1..(k - 1) : /\ calls[g].op = "createNextGroup"
                                          /\ calls[g].ok /\ calls[g].cluster = c
          /\ PhaseOf(k) >= 4 => OkBefore("wait_for_in_service", k)
          /\ PhaseOf(k) >= 5 =>
                \A c \in DOMAIN new_asgs :
                    \E g \in 1..(k - 1) : /\ calls[g].op = "activate" /\ calls[g].ok
                                          /\ calls[g].names = <<new_asgs[c]>>
          /\ PhaseOf(k) = 6 => OkBefore("wait_for_healthy_elbs", k)
    /\ pc = "done" =>
          /\ first_error = NoError
          /\ \A k \in DOMAIN calls : calls[k].ok
          /\ OkBefore("wait_for_in_service", Len(calls) + 1)
          /\ OkBefore("wait_for_healthy_elbs", Len(calls) + 1)
          /\ \A c \in DOMAIN existing_clusters :
                \E k \in OnOld : calls[k].cluster = c
    /\ \A k \in OnNew :
          /\ FailedOp \in {"activate", "asg_info", "wait_for_healthy_elbs"}
          /\ k > first_error.at

C17_Witness ==
    /\ pc = "done"
    /\ Cardinality(DOMAIN existing_clusters) = 2
    /\ OnNew = {}

\* C18: the deadline is the clock at the call plus the timeout and stays
\* there; every poll begins strictly before it; no more polls are made than
\* the timeout has seconds; with a timeout of zero or less the call raises
\* TimeoutException without a single poll.
C18_DeadlineIsAbsolute ==
    /\ t_pc \in {"loop", "sleep", "returned", "raised"} => end_time = began + timeout
    /\ \A k \in DOMAIN polled_at : polled_at[k] < began + timeout
    /\ Len(seen) = Len(polled_at)
    /\ Len(seen) <= IF timeout > 0 THEN timeout ELSE 0
    /\ (timeout <= 0 /\ t_pc # "idle") =>
          /\ seen = <<>>
          /\ t_pc \in {"start", "loop", "raised"}
          /\ t_pc = "raised" => response.raised = "TimeoutException"

C18_Witness ==
    /\ t_pc = "raised"
    /\ timeout >= 2
    /\ Len(polled_at) = timeout

C18_WitnessNoPoll ==
    /\ t_pc = "raised"
    /\ timeout <= 0
    /\ seen = <<>>

Entries(list) == {list[k] : k \in DOMAIN list}

\* C19: a new_asg call whose task completed returns the last entry of the
\* cluster's list as it was when queried after the completion; when no
\* other creation on the cluster ended between its request and its query,
\* that entry is the ASG its own task created, absent from the cluster
\* before the request. (That two concurrent calls can return one name is the
\* witness.)
C19_ReturnsLastListed ==
    \A p \in 1..MaxCreators :
        creators[p].pc = "returned" =>
            /\ creators[p].task = "completed"
            /\ creators[p].listed # <<>>
            /\ creators[p].value = creators[p].listed[Len(creators[p].listed)]
            /\ creators[p].made \in Entries(creators[p].listed)
            /\ ~creators[p].disturbed =>
                  /\ creators[p].value = creators[p].made
                  /\ creators[p].value \notin Entries(creators[p].before)

C19_Witness ==
    \E p, q \in 1..MaxCreators :
        /\ p # q
        /\ creators[p].pc = "returned" /\ creators[q].pc = "returned"
        /\ creators[p].value = creators[q].value
        /\ creators[p].value = creators[q].made
        /\ creators[p].made # creators[q].made

C19_WitnessAlone ==
    \E p \in 1..MaxCreators :
        /\ creators[p].pc = "returned" /\ ~creators[p].disturbed
        /\ creators[p].before # <<>>

Finished == pc \in {"done", "raised"} \/ t_pc \in {"returned", "raised"}

\* C20: every run of deploy ends, done or with an exception raised, and so
\* does every wait for a task, whatever the statuses the task shows; a wait
\* that began with a positive timeout never has the clock further than one
\* request past its deadline; deploy can take a step exactly as long as it
\* is neither done nor left by an exception.
C20_EveryRunEnds ==
    /\ <>Finished
    /\ [](Running <=> ENABLED <<Next>>_vars)
    /\ [](t_pc \in {"loop", "sleep", "returned", "raised"} =>
             now <= IF timeout > 0 THEN end_time + REQUESTS_TIMEOUT ELSE began)

C20_Witness ==
    /\ pc = "raised"
    /\ raised.type = "TimeoutException"
    /\ FailedOp \in {"createNextGroup", "activate", "deactivate"}
    /\ Len(calls) >= 2

\* The clusters of the ASGs named by the deactivations in K.
ClustersOf(K) == UNION {{a.cluster : a \in Names(k)} : k \in K}

\* C21: the clusters whose new ASG was sent a deactivation and the clusters
\* whose old ASGs were sent one are disjoint in every run; a cluster whose
\* old ASGs were sent a deactivation had its new ASG activated successfully
\* before, and that new ASG is never sent a deactivation.
C21_NewAndOldNeverBothDeactivated ==
    /\ ClustersOf(OnNew) \cap ClustersOf(OnOld) = {}
    /\ \A k \in OnOld :
          \A c \in ClustersOf({k}) :
              /\ c \in DOMAIN new_asgs
              /\ \E g \in 1..(k - 1) : /\ calls[g].op = "activate" /\ calls[g].ok
                                       /\ calls[g].names = <<new_asgs[c]>>
              /\ \A j \in Deactivations : new_asgs[c] \notin Names(j)

C21_Witness ==
    /\ pc = "raised"
    /\ FailedOp = "deactivate"
    /\ first_error.at \in OnOld
    /\ Cardinality(OnOld) = 2
    /\ OnNew = {}

C21_WitnessRollback ==
    /\ pc = "raised"
    /\ Cardinality(ClustersOf(OnNew)) = 2
    /\ OnOld = {}

====
